---- MODULE Spec2Model ----
(***************************************************************************)
(* Model of bot.py: the instrument liveness monitor.                       *)
(*                                                                         *)
(* main() first initialises the Telegram bot (get_me, startup message),    *)
(* then loops forever: read the loop clock, run                            *)
(* alert_if_instrument_inactive (one ClickHouse query per instrument, one  *)
(* alert message and one restart script when some instrument is stale),    *)
(* and sleep until start_time + 600 s.                                     *)
(*                                                                         *)
(* Time is counted in ticks of five minutes: the ten minute window of      *)
(* line 174 and the 600 s period of line 228 are two ticks each.  The      *)
(* clock only advances while an external call (query, send, script, sleep) *)
(* is in progress.                                                         *)
(***************************************************************************)
EXTENDS Integers, Sequences, FiniteSets, TLC

(* ---- program constants (in ticks of five minutes) ---- *)
\* pd.Timedelta(minutes=10), line 174
Threshold == 2
\* seconds = 60 * 10, line 228
Interval == 2

(* ---- bounds of the model ---- *)
\* number of entries of the instruments dict (25 in the source)
NumInstruments == 2
\* the clock is explored up to this tick
MaxTime == 5
\* number of loop iterations explored
MaxCycles == 2
\* longest label given to escape_markdown
MaxLen == 3
\* most entries written in one of the three literals of lines 46-114
MaxEntries == 2
\* longest duration of one external call, in ticks
MaxStep == 1
\* largest lateness of asyncio.sleep's wake-up, in ticks
MaxLate == 1

\* query_df.iloc[0, 0], line 172: a timestamp, or pandas' NaT when
\* max(o_ts_exch) has no value to return
Timestamp(t) == [isnat |-> FALSE, ts |-> t]
NaT == [isnat |-> TRUE, ts |-> 0]

\* the instruments dict, lines 46-114: labels in insertion order
instruments == [i \in 1..NumInstruments |-> i]

VARIABLES
    state,              \* Starting, Running, Stopped, Crashed, Interrupted
    pc,                 \* the line main() is at
    now,                \* the clock
    must_cancel,        \* a cancellation of the main task is pending
    start_time,         \* line 224
    next_run_time,      \* line 229
    sleep_time,         \* line 230
    idx,                \* position of the for loop of line 169
    failed_instruments, \* line 167
    delivered,          \* messages delivered to the chat since the last
                        \* read of the loop clock, oldest first
    err_logged,         \* number of logger.error calls
    cycle,              \* number of loop iterations started
    results,            \* this cycle's evaluations, in the order made
    n_send,             \* send_message calls of this cycle's alert
    n_remed,            \* subprocess.run calls of this cycle
    last_remed,         \* outcome of this cycle's script: none, ok, failed
    fault,              \* what ended or disturbed the run: none, get_me, ...
    first_start,        \* start_time of the first cycle
    prev_start,         \* start_time of the previous cycle
    prev_work,          \* duration of the previous cycle's work
    prev_late,          \* lateness of the sleep that ended the previous cycle
    total_late,         \* sum of the lateness of all sleeps so far
    all_short,          \* every completed cycle's work took less than Interval
    prev_first,         \* first label named in the alert of the previous
                        \* cycle, 0 when it sent none
    prev_remed,         \* subprocess.run calls of the previous cycle
    raw_label,          \* a label handed to line 183, as its characters
    alert_part,         \* what line 183 makes of it: *escaped label*
    esc_pc,             \* raw, formatted; idle while main runs
    config,             \* the entries written in the three literals
    registry,           \* the dict they make, as its items in order
    reg_pc              \* written, built; idle while main runs

vars == <<state, pc, now, must_cancel, start_time, next_run_time, sleep_time,
          idx, failed_instruments, delivered, err_logged, cycle, results,
          n_send, n_remed, last_remed, fault, first_start, prev_start,
          prev_work, prev_late, total_late, all_short, prev_first,
          prev_remed, raw_label, alert_part, esc_pc, config, registry,
          reg_pc>>

\* the variables of the pure functions, untouched by main
esc_vars == <<raw_label, alert_part, esc_pc>>
reg_vars == <<config, registry, reg_pc>>
pure == <<esc_vars, reg_vars>>

\* no label is being formatted
EscIdle == raw_label = <<>> /\ alert_part = <<>> /\ esc_pc = "idle"

\* no registry is being built
RegIdle ==
    /\ config = [binance |-> <<>>, bitmex |-> <<>>, crypto |-> <<>>]
    /\ registry = <<>>
    /\ reg_pc = "idle"

sched == <<start_time, next_run_time, sleep_time>>
hist  == <<first_start, prev_start, prev_work, prev_late, total_late,
           all_short, prev_first, prev_remed>>
work  == <<idx, failed_instruments, results, n_send, n_remed, last_remed>>

Max(a, b) == IF a >= b THEN a ELSE b

Init ==
    /\ state = "Starting"
    /\ pc = "get_me"
    /\ now = 0
    /\ must_cancel = FALSE
    /\ start_time = 0
    /\ next_run_time = 0
    /\ sleep_time = 0
    /\ idx = 1
    /\ failed_instruments = <<>>
    /\ delivered = <<>>
    /\ err_logged = 0
    /\ cycle = 0
    /\ results = <<>>
    /\ n_send = 0
    /\ n_remed = 0
    /\ last_remed = "none"
    /\ fault = "none"
    /\ first_start = 0
    /\ prev_start = 0
    /\ prev_work = 0
    /\ prev_late = 0
    /\ total_late = 0
    /\ all_short = TRUE
    /\ prev_first = 0
    /\ prev_remed = 0
    /\ EscIdle
    /\ RegIdle

(* ---- pure parts of the code ---- *)

\* lines 174-175: query_df.iloc[0, 0] < datetime.now() - 10 minutes.
\* Every ordering comparison with NaT is False.
has_passed_minutes(last_update, at) ==
    IF last_update.isnat THEN FALSE ELSE last_update.ts < at - Threshold

\* the list built back to front
list_prepend(l, x) == <<x>> \o l

\* line 178: failed_instruments.append(instrument)
list_append(l, x) == Append(l, x)

\* line 183: the alert text, as its count and its emphasised labels
alert_text(failed) ==
    [kind |-> "alert", count |-> Len(failed), labels |-> failed]

\* line 209: the startup text
startup_text == [kind |-> "startup", count |-> 0, labels |-> <<>>]

\* the script run as soon as the list is not empty, the send left out
after_loop_remediate_first(failed) ==
    IF failed # <<>> THEN "remediate" ELSE "compute_sleep"

\* the alert branch taken whatever the list holds
after_loop_always(failed) == "send_alert"

\* line 180: if failed_instruments
after_loop(failed) == IF failed # <<>> THEN "send_alert" ELSE "compute_sleep"

\* the deadline counted from the end of the work
NextRunTime_FromNow(t0) == now + Interval

\* line 229
NextRunTime(t0) == t0 + Interval

\* the whole period slept whatever the work took
SleepTime_Whole(deadline, t) == Interval

\* the difference taken as it is, also when the deadline has passed
SleepTime_NoClamp(deadline, t) == deadline - t

\* line 230
SleepTime(deadline, t) == Max(0, deadline - t)

\* the values one query can return at time t: no value, or a last update
\* younger than, exactly as old as, or older than the window
QueryCells(t) ==
    {NaT} \cup {Timestamp(t - a) : a \in (Threshold - 1)..(Threshold + 1)}

\* durations of one external call that keep the clock within MaxTime
Steps == {d \in 0..MaxStep : now + d <= MaxTime}

(* ---- escape_markdown, lines 117-154, and its use in line 183 ---- *)

\* lines 130-152; the backquote of line 140 cannot be written in a string
\* of this language and is spelled out
SPECIAL_CHARS ==
    {"\\", "_", "*", "[", "]", "(", ")", "~", "backquote", ">", "<", "&", "#", "+",
     "-", "=", "|", "{", "}", ".", "!"}

\* line 154 for a given list of special characters
RECURSIVE escape_with(_, _)
escape_with(text, special) ==
    IF text = <<>> THEN <<>>
    ELSE (IF Head(text) \in special THEN <<"\\", Head(text)>>
                                    ELSE <<Head(text)>>)
         \o escape_with(Tail(text), special)

\* the escaping applied to its own result
escape_markdown_twice(text) ==
    escape_with(escape_with(text, SPECIAL_CHARS), SPECIAL_CHARS)

\* line 154
escape_markdown(text) == escape_with(text, SPECIAL_CHARS)

\* line 183: f'*{escape_markdown(text=failed_instrument)}*'
emphasised(label) == <<"*">> \o escape_markdown(label) \o <<"*">>

\* characters of the labels tried: a letter, two characters that the
\* labels of lines 46-114 hold, and the escape character itself
Alphabet == {"A", "_", "(", "\\"}

\* the labels of at most n characters
RECURSIVE LabelsUpTo(_)
LabelsUpTo(n) ==
    IF n = 0 THEN {<<>>}
    ELSE LET shorter == LabelsUpTo(n - 1)
         IN  shorter \cup {Append(l, c) : l \in shorter, c \in Alphabet}

(* ---- the registry, lines 46-114 ---- *)

\* a dict is the sequence of its items [k, v] in insertion order

\* every assignment adds an item, also for a key the dict holds
dict_set_append(d, k, v) == Append(d, [k |-> k, v |-> v])

\* d[k] = v: a key the dict holds keeps its place and takes the new value
dict_set(d, k, v) ==
    IF \E i \in 1..Len(d) : d[i].k = k
    THEN [i \in 1..Len(d) |-> IF d[i].k = k THEN [k |-> k, v |-> v] ELSE d[i]]
    ELSE Append(d, [k |-> k, v |-> v])

\* d.update(items), lines 68 and 78
RECURSIVE dict_update(_, _)
dict_update(d, items) ==
    IF items = <<>> THEN d
    ELSE dict_update(dict_set(d, Head(items).k, Head(items).v), Tail(items))

\* a dict display or comprehension over items
dict_of(items) == dict_update(<<>>, items)

\* f"{inst} ({segm})", lines 47, 69, 79
label_of(inst, segm) == <<inst, " (", segm, ")">>

\* line 47
binance_item(inst, segm) ==
    [k |-> label_of(inst, segm),
     v |-> <<"Binance", segm, "_", inst, "_Binance_", segm, "_PERPETUAL">>]

\* line 69
bitmex_item(inst) ==
    [k |-> label_of(inst, "Fut"), v |-> <<"BitMEX_", inst, "_BitMEX_PERP">>]

\* lines 79-80
crypto_item(inst, segm) ==
    [k |-> label_of(inst, segm),
     v |-> <<"Crypto_", inst, "_Crypto_", segm, "_",
             IF segm = "Spt" THEN "SPOT" ELSE "PERP">>]

\* lines 46-65: the literal of lines 49-65 is a dict itself
binance_dict(written) ==
    LET literal == dict_of(written)
    IN  dict_of([i \in 1..Len(literal) |->
                     binance_item(literal[i].k, literal[i].v)])

\* lines 69-75: over a list
bitmex_dict(written) ==
    dict_of([i \in 1..Len(written) |-> bitmex_item(written[i])])

\* lines 79-92
crypto_dict(written) ==
    LET literal == dict_of(written)
    IN  dict_of([i \in 1..Len(literal) |->
                     crypto_item(literal[i].k, literal[i].v)])

\* lines 46-93
build_instruments(cfg) ==
    dict_update(dict_update(binance_dict(cfg.binance),
                            bitmex_dict(cfg.bitmex)),
                crypto_dict(cfg.crypto))

\* names and segments tried; the source has more of both
Insts == {"ETHUSDT", "BTC_USD"}
Segms == {"Fut", "Spt"}

\* the sequences over S of at most n elements
RECURSIVE SeqsUpTo(_, _)
SeqsUpTo(S, n) ==
    IF n = 0 THEN {<<>>}
    ELSE LET shorter == SeqsUpTo(S, n - 1)
         IN  shorter \cup {Append(q, x) : q \in shorter, x \in S}

(* ---- exception handlers of main ---- *)

\* lines 216-218: except TelegramError in the startup block
StartupError(what) ==
    /\ err_logged' = err_logged + 1
    /\ state' = "Crashed"
    /\ pc' = "done"
    /\ fault' = what

\* the handler of lines 237-238 starting the loop again
UnexpectedError_Restart(what) ==
    /\ err_logged' = err_logged + 1
    /\ state' = "Running"
    /\ pc' = "loop_top"
    /\ fault' = what

\* lines 237-238: except Exception around the loop
UnexpectedError(what) ==
    /\ err_logged' = err_logged + 1
    /\ state' = "Crashed"
    /\ pc' = "done"
    /\ fault' = what

\* lines 235-236: except asyncio.CancelledError around the loop
Cancelled ==
    /\ state' = "Stopped"
    /\ pc' = "done"
    /\ must_cancel' = FALSE
    /\ UNCHANGED pure
    /\ UNCHANGED <<err_logged, fault>>

(* ---- startup, lines 204-220 ---- *)

\* line 208: await bot.get_me() returns
GetMe ==
    /\ pc = "get_me" /\ ~must_cancel
    /\ pc' = "send_startup"
    /\ UNCHANGED pure
    /\ UNCHANGED <<state, now, must_cancel, sched, work, hist, delivered,
                   err_logged, cycle, fault>>

\* line 208 raises TelegramError
GetMeFails ==
    /\ pc = "get_me" /\ ~must_cancel
    /\ StartupError("get_me")
    /\ UNCHANGED pure
    /\ UNCHANGED <<now, must_cancel, sched, work, hist, delivered, cycle>>

\* lines 211-215 and 220: the startup message is delivered
SendStartup ==
    /\ pc = "send_startup" /\ ~must_cancel
    /\ \E d \in Steps : now' = now + d
    /\ delivered' = Append(delivered, startup_text)
    /\ state' = "Running"
    /\ pc' = "loop_top"
    /\ UNCHANGED pure
    /\ UNCHANGED <<must_cancel, sched, work, hist, err_logged, cycle,
                   fault>>

\* the handler of lines 216-218 without its return
SendStartupFails_NoReturn ==
    /\ pc = "send_startup" /\ ~must_cancel
    /\ err_logged' = err_logged + 1
    /\ fault' = "send_startup"
    /\ state' = "Running"
    /\ pc' = "loop_top"
    /\ UNCHANGED pure
    /\ UNCHANGED <<now, must_cancel, sched, work, hist, delivered, cycle>>

\* lines 211-215 raise TelegramError
SendStartupFails ==
    /\ pc = "send_startup" /\ ~must_cancel
    /\ StartupError("send_startup")
    /\ UNCHANGED pure
    /\ UNCHANGED <<now, must_cancel, sched, work, hist, delivered, cycle>>

\* a cancellation delivered at an await of the startup block: CancelledError
\* is no TelegramError, so it leaves main uncaught
StartupCancelled ==
    /\ pc \in {"get_me", "send_startup"} /\ must_cancel
    /\ state' = "Interrupted"
    /\ pc' = "done"
    /\ must_cancel' = FALSE
    /\ fault' = "cancel_startup"
    /\ UNCHANGED pure
    /\ UNCHANGED <<now, sched, work, hist, delivered, err_logged, cycle>>

(* ---- one cycle, lines 223-234 and 157-194 ---- *)

\* labels named in the alerts among the messages msgs
Named(msgs) ==
    {x \in 1..NumInstruments :
        \E m \in 1..Len(msgs) :
            /\ msgs[m].kind = "alert"
            /\ \E k \in 1..Len(msgs[m].labels) : msgs[m].labels[k] = x}

\* the first label of the registry named in the alerts among msgs, or 0
FirstNamed(msgs) ==
    IF Named(msgs) = {} THEN 0
    ELSE CHOOSE x \in Named(msgs) : \A y \in Named(msgs) : x <= y

\* line 226 without its await: the coroutine of the cycle is never run
LoopTop_NotAwaited ==
    /\ pc = "loop_top" /\ cycle < MaxCycles
    /\ start_time' = now
    /\ cycle' = cycle + 1
    /\ first_start' = IF cycle = 0 THEN now ELSE first_start
    /\ total_late' = total_late + prev_late
    /\ prev_first' = FirstNamed(delivered)
    /\ prev_remed' = n_remed
    /\ failed_instruments' = <<>>
    /\ results' = <<>>
    /\ delivered' = <<>>
    /\ idx' = 1
    /\ n_send' = 0 /\ n_remed' = 0 /\ last_remed' = "none"
    /\ pc' = "compute_sleep"
    /\ UNCHANGED pure
    /\ UNCHANGED <<state, now, must_cancel, next_run_time, sleep_time,
                   err_logged, fault, prev_start, prev_work, prev_late,
                   all_short>>

\* line 167 moved out of the function: the list of the cycle before is kept
LoopTop_KeepList ==
    /\ pc = "loop_top" /\ cycle < MaxCycles
    /\ start_time' = now
    /\ cycle' = cycle + 1
    /\ first_start' = IF cycle = 0 THEN now ELSE first_start
    /\ total_late' = total_late + prev_late
    /\ prev_first' = FirstNamed(delivered)
    /\ prev_remed' = n_remed
    /\ results' = <<>>
    /\ delivered' = <<>>
    /\ idx' = 1
    /\ n_send' = 0 /\ n_remed' = 0 /\ last_remed' = "none"
    /\ pc' = "query"
    /\ UNCHANGED pure
    /\ UNCHANGED <<state, now, must_cancel, next_run_time, sleep_time,
                   err_logged, fault, prev_start, prev_work, prev_late,
                   all_short, failed_instruments>>

\* lines 224 and 167: read the loop clock, start with an empty list
LoopTop ==
    /\ pc = "loop_top" /\ cycle < MaxCycles
    /\ start_time' = now
    /\ cycle' = cycle + 1
    /\ first_start' = IF cycle = 0 THEN now ELSE first_start
    /\ total_late' = total_late + prev_late
    /\ prev_first' = FirstNamed(delivered)
    /\ prev_remed' = n_remed
    /\ failed_instruments' = <<>>
    /\ results' = <<>>
    /\ delivered' = <<>>
    /\ idx' = 1
    /\ n_send' = 0 /\ n_remed' = 0 /\ last_remed' = "none"
    /\ pc' = IF NumInstruments = 0 THEN after_loop(<<>>) ELSE "query"
    /\ UNCHANGED pure
    /\ UNCHANGED <<state, now, must_cancel, next_run_time, sleep_time,
                   err_logged, fault, prev_start, prev_work, prev_late,
                   all_short>>

\* the loop over the registry left at the first stale instrument
QueryReturns_BreakOnStale ==
    /\ pc = "query"
    /\ \E d \in Steps : \E cell \in QueryCells(now + d) :
        LET instrument == instruments[idx]
            stale == has_passed_minutes(cell, now + d)
            failed == IF stale THEN list_append(failed_instruments, instrument)
                               ELSE failed_instruments
        IN  /\ now' = now + d
            /\ results' = Append(results,
                                 [instrument |-> instrument,
                                  last_update |-> cell,
                                  at |-> now + d,
                                  is_stale |-> stale])
            /\ failed_instruments' = failed
            /\ idx' = idx + 1
            /\ pc' = IF stale \/ idx + 1 > NumInstruments
                      THEN after_loop(failed) ELSE "query"
    /\ UNCHANGED pure
    /\ UNCHANGED <<state, must_cancel, sched, hist, delivered, err_logged,
                   cycle, n_send, n_remed, last_remed, fault>>

\* lines 170-178 for the instrument at idx: the query returns one cell
QueryReturns ==
    /\ pc = "query"
    /\ \E d \in Steps : \E cell \in QueryCells(now + d) :
        LET instrument == instruments[idx]
            stale == has_passed_minutes(cell, now + d)
            failed == IF stale THEN list_append(failed_instruments, instrument)
                               ELSE failed_instruments
        IN  /\ now' = now + d
            /\ results' = Append(results,
                                 [instrument |-> instrument,
                                  last_update |-> cell,
                                  at |-> now + d,
                                  is_stale |-> stale])
            /\ failed_instruments' = failed
            /\ idx' = idx + 1
            /\ pc' = IF idx + 1 > NumInstruments THEN after_loop(failed)
                                                 ELSE "query"
    /\ UNCHANGED pure
    /\ UNCHANGED <<state, must_cancel, sched, hist, delivered, err_logged,
                   cycle, n_send, n_remed, last_remed, fault>>

\* the failure of one query recorded as a stale instrument, the loop going on
QueryRaises_Contained ==
    /\ pc = "query"
    /\ \E d \in Steps : now' = now + d
    /\ failed_instruments' =
           list_append(failed_instruments, instruments[idx])
    /\ idx' = idx + 1
    /\ pc' = IF idx + 1 > NumInstruments THEN "send_alert" ELSE "query"
    /\ fault' = "query"
    /\ UNCHANGED pure
    /\ UNCHANGED <<state, must_cancel, sched, hist, delivered, err_logged,
                   cycle, results, n_send, n_remed, last_remed>>

\* line 170 raises (connection lost, unknown table), or line 172 raises
\* IndexError on a result without rows: nothing in
\* alert_if_instrument_inactive catches it
QueryRaises ==
    /\ pc = "query"
    /\ \E d \in Steps : now' = now + d
    /\ UnexpectedError("query")
    /\ UNCHANGED pure
    /\ UNCHANGED <<must_cancel, sched, hist, delivered, cycle, idx,
                   failed_instruments, results, n_send, n_remed, last_remed>>

\* lines 181-185: the alert is delivered
SendAlert ==
    /\ pc = "send_alert" /\ ~must_cancel
    /\ \E d \in Steps : now' = now + d
    /\ n_send' = n_send + 1
    /\ delivered' = Append(delivered, alert_text(failed_instruments))
    /\ pc' = "remediate"
    /\ UNCHANGED pure
    /\ UNCHANGED <<state, must_cancel, sched, hist, err_logged, cycle, idx,
                   failed_instruments, results, n_remed, last_remed, fault>>

\* the failure of the send logged, the cycle going on to the script
SendAlertFails_Contained ==
    /\ pc = "send_alert" /\ ~must_cancel
    /\ \E d \in Steps : now' = now + d
    /\ n_send' = n_send + 1
    /\ err_logged' = err_logged + 1
    /\ fault' = "send_alert"
    /\ pc' = "remediate"
    /\ UNCHANGED pure
    /\ UNCHANGED <<state, must_cancel, sched, hist, delivered, cycle, idx,
                   failed_instruments, results, n_remed, last_remed>>

\* lines 181-185 raise TelegramError: nothing in
\* alert_if_instrument_inactive catches it
SendAlertFails ==
    /\ pc = "send_alert" /\ ~must_cancel
    /\ \E d \in Steps : now' = now + d
    /\ n_send' = n_send + 1
    /\ UnexpectedError("send_alert")
    /\ UNCHANGED pure
    /\ UNCHANGED <<must_cancel, sched, hist, delivered, cycle, idx,
                   failed_instruments, results, n_remed, last_remed>>

\* a pending cancellation is delivered at the await of line 181; the
\* request may or may not have reached the chat
SendAlertCancelled ==
    /\ pc = "send_alert" /\ must_cancel
    /\ \E reached \in BOOLEAN :
        delivered' = IF reached
                   THEN Append(delivered, alert_text(failed_instruments))
                   ELSE delivered
    /\ n_send' = n_send + 1
    /\ Cancelled
    /\ UNCHANGED pure
    /\ UNCHANGED <<now, sched, hist, cycle, idx, failed_instruments, results,
                   n_remed, last_remed>>

\* lines 187-192: the script exits with status zero
Remediate ==
    /\ pc = "remediate"
    /\ \E d \in Steps : now' = now + d
    /\ n_remed' = n_remed + 1
    /\ last_remed' = "ok"
    /\ pc' = "compute_sleep"
    /\ UNCHANGED pure
    /\ UNCHANGED <<state, must_cancel, sched, hist, delivered, err_logged,
                   cycle, idx, failed_instruments, results, n_send, fault>>

\* the failed script run again
RemediateFails_Retry ==
    /\ pc = "remediate"
    /\ \E d \in Steps : now' = now + d
    /\ n_remed' = n_remed + 1
    /\ last_remed' = "failed"
    /\ err_logged' = err_logged + 1
    /\ pc' = IF n_remed = 0 THEN "remediate" ELSE "compute_sleep"
    /\ UNCHANGED pure
    /\ UNCHANGED <<state, must_cancel, sched, hist, delivered, cycle, idx,
                   failed_instruments, results, n_send, fault>>

\* lines 193-194: the script exits non-zero, CalledProcessError is logged
RemediateFails ==
    /\ pc = "remediate"
    /\ \E d \in Steps : now' = now + d
    /\ n_remed' = n_remed + 1
    /\ last_remed' = "failed"
    /\ err_logged' = err_logged + 1
    /\ pc' = "compute_sleep"
    /\ UNCHANGED pure
    /\ UNCHANGED <<state, must_cancel, sched, hist, delivered, cycle, idx,
                   failed_instruments, results, n_send, fault>>

\* line 188 raises something else than CalledProcessError (OSError when
\* bash cannot be started): lines 193-194 do not catch it
RemediateRaises ==
    /\ pc = "remediate"
    /\ \E d \in Steps : now' = now + d
    /\ n_remed' = n_remed + 1
    /\ UnexpectedError("remediate")
    /\ UNCHANGED pure
    /\ UNCHANGED <<must_cancel, sched, hist, delivered, cycle, idx,
                   failed_instruments, results, n_send, last_remed>>

\* line 188 is given no timeout: a script that never exits keeps
\* subprocess.run, and with it the only task of the loop, waiting for ever
RemediateHangs ==
    /\ pc = "remediate"
    /\ n_remed' = n_remed + 1
    /\ pc' = "remediate_hung"
    /\ UNCHANGED pure
    /\ UNCHANGED <<state, now, must_cancel, sched, hist, delivered,
                   err_logged, cycle, idx, failed_instruments, results,
                   n_send, last_remed, fault>>

\* lines 228-232: deadline and sleep time of this cycle
ComputeSleep ==
    /\ pc = "compute_sleep"
    /\ next_run_time' = NextRunTime(start_time)
    /\ sleep_time' = SleepTime(NextRunTime(start_time), now)
    /\ pc' = IF SleepTime(NextRunTime(start_time), now) # 0 THEN "sleeping"
                                                            ELSE "loop_top"
    /\ prev_start' = start_time
    /\ prev_work' = now - start_time
    /\ prev_late' = 0
    /\ all_short' = (all_short /\ now - start_time < Interval)
    /\ UNCHANGED pure
    /\ UNCHANGED <<state, now, must_cancel, start_time, work, delivered,
                   err_logged, cycle, fault, first_start, total_late,
                   prev_first, prev_remed>>

\* line 234: asyncio.sleep returns, at the deadline or later
Sleep ==
    /\ pc = "sleeping" /\ ~must_cancel
    /\ \E late \in 0..MaxLate :
        /\ now + sleep_time + late <= MaxTime
        /\ now' = now + sleep_time + late
        /\ prev_late' = late
    /\ pc' = "loop_top"
    /\ UNCHANGED pure
    /\ UNCHANGED <<state, must_cancel, sched, work, delivered, err_logged,
                   cycle, fault, first_start, prev_start, prev_work,
                   total_late, all_short, prev_first, prev_remed>>

\* a cancellation is delivered at the await of line 234
SleepCancelled ==
    /\ pc = "sleeping" /\ must_cancel
    /\ Cancelled
    /\ UNCHANGED pure
    /\ UNCHANGED <<now, sched, work, hist, delivered, cycle>>

\* the main task is cancelled from outside (asyncio.run on SIGINT)
Cancel ==
    /\ pc # "done" /\ ~must_cancel
    /\ must_cancel' = TRUE
    /\ UNCHANGED pure
    /\ UNCHANGED <<state, pc, now, sched, work, hist, delivered, err_logged,
                   cycle, fault>>

\* the steps of the work of a cycle, lines 169-194 and 228-232
CycleStep ==
    \/ QueryReturns \/ QueryRaises
    \/ SendAlert \/ SendAlertFails \/ SendAlertCancelled
    \/ Remediate \/ RemediateFails \/ RemediateRaises \/ RemediateHangs
    \/ ComputeSleep

Next ==
    \/ GetMe \/ GetMeFails \/ SendStartup \/ SendStartupFails
    \/ StartupCancelled
    \/ LoopTop \/ QueryReturns \/ QueryRaises
    \/ SendAlert \/ SendAlertFails \/ SendAlertCancelled
    \/ Remediate \/ RemediateFails \/ RemediateRaises \/ RemediateHangs
    \/ ComputeSleep \/ Sleep \/ SleepCancelled
    \/ Cancel

Spec == Init /\ [][Next]_vars

(* ---- the loop without an end ---- *)

\* LoopTop with the clock read from the start of the cycle that begins: the
\* loop clock has no origin the code depends on (lines 224-230 use only
\* differences), so the deadline of the last cycle moves with it; the count
\* of cycles stops at MaxCycles, the errors logged are counted per cycle and
\* the sums over the whole run are left
LoopTopLive ==
    /\ pc = "loop_top"
    /\ now' = 0
    /\ start_time' = 0
    /\ next_run_time' = next_run_time - now
    /\ cycle' = IF cycle < MaxCycles THEN cycle + 1 ELSE cycle
    /\ prev_first' = FirstNamed(delivered)
    /\ prev_remed' = n_remed
    /\ failed_instruments' = <<>>
    /\ results' = <<>>
    /\ delivered' = <<>>
    /\ idx' = 1
    /\ n_send' = 0 /\ n_remed' = 0 /\ last_remed' = "none"
    /\ pc' = IF NumInstruments = 0 THEN after_loop(<<>>) ELSE "query"
    /\ UNCHANGED pure
    /\ err_logged' = 0
    /\ UNCHANGED <<state, must_cancel, sleep_time, fault, first_start,
                   total_late, prev_start, prev_work, prev_late, all_short>>

\* the steps of the task itself
TaskStep ==
    \/ GetMe \/ GetMeFails \/ SendStartup \/ SendStartupFails
    \/ StartupCancelled
    \/ LoopTopLive \/ QueryReturns \/ QueryRaises
    \/ SendAlert \/ SendAlertFails \/ SendAlertCancelled
    \/ Remediate \/ RemediateFails \/ RemediateRaises \/ RemediateHangs
    \/ ComputeSleep \/ Sleep \/ SleepCancelled

NextLive == TaskStep \/ Cancel

\* the event loop runs the one task whenever it can go on; when a
\* cancellation is requested is up to the outside
LiveSpec == Init /\ [][NextLive]_vars /\ WF_vars(TaskStep)

(* ---- the label formatting on its own ---- *)

\* main at rest
MainIdle ==
    /\ state = "Starting" /\ pc = "get_me" /\ now = 0
    /\ must_cancel = FALSE
    /\ start_time = 0 /\ next_run_time = 0 /\ sleep_time = 0
    /\ idx = 1 /\ failed_instruments = <<>> /\ delivered = <<>>
    /\ err_logged = 0 /\ cycle = 0 /\ results = <<>>
    /\ n_send = 0 /\ n_remed = 0 /\ last_remed = "none" /\ fault = "none"
    /\ first_start = 0 /\ prev_start = 0 /\ prev_work = 0 /\ prev_late = 0
    /\ total_late = 0 /\ all_short = TRUE
    /\ prev_first = 0 /\ prev_remed = 0

main_vars ==
    <<state, pc, now, must_cancel, sched, work, hist, delivered, err_logged,
      cycle, fault>>

InitEscape ==
    /\ MainIdle
    /\ RegIdle
    /\ raw_label \in LabelsUpTo(MaxLen)
    /\ alert_part = <<>>
    /\ esc_pc = "raw"

\* line 183 for one failing label
FormatLabel ==
    /\ esc_pc = "raw"
    /\ alert_part' = emphasised(raw_label)
    /\ esc_pc' = "formatted"
    /\ UNCHANGED <<raw_label, main_vars, reg_vars>>

NextEscape == FormatLabel

SpecEscape == InitEscape /\ [][NextEscape]_vars

(* ---- the construction of the registry on its own ---- *)

InitRegistry ==
    /\ MainIdle
    /\ EscIdle
    /\ config \in [binance : SeqsUpTo([k : Insts, v : Segms], MaxEntries),
                    bitmex : SeqsUpTo(Insts, MaxEntries),
                    crypto : SeqsUpTo([k : Insts, v : Segms], MaxEntries)]
    /\ registry = <<>>
    /\ reg_pc = "written"

\* lines 46-93, run when the module is loaded
BuildRegistry ==
    /\ reg_pc = "written"
    /\ registry' = build_instruments(config)
    /\ reg_pc' = "built"
    /\ UNCHANGED <<config, main_vars, esc_vars>>

NextRegistry == BuildRegistry

SpecRegistry == InitRegistry /\ [][NextRegistry]_vars

TypeOK ==
    /\ state \in {"Starting", "Running", "Stopped", "Crashed", "Interrupted"}
    /\ pc \in {"get_me", "send_startup", "loop_top", "query", "send_alert",
               "remediate", "remediate_hung", "compute_sleep", "sleeping",
               "done"}
    /\ now \in 0..MaxTime
    /\ must_cancel \in BOOLEAN
    /\ idx \in 1..NumInstruments + 1
    /\ cycle \in 0..MaxCycles

(* ---- vocabulary of the properties ---- *)

InFailed(i) ==
    \E j \in 1..Len(failed_instruments) : failed_instruments[j] = i

AnyStale == \E k \in 1..Len(results) : results[k].is_stale

IsAlert(m) == m.kind = "alert"

Alerts == SelectSeq(delivered, IsAlert)

\* labels of the evaluations classified stale, in the order evaluated
StaleLabels ==
    LET IsStale(r) == r.is_stale
        st == SelectSeq(results, IsStale)
    IN  [k \in 1..Len(st) |-> st[k].instrument]

\* position of a label in the registry
Pos(x) == CHOOSE i \in 1..NumInstruments : instruments[i] = x

\* the work of the current cycle is over and the loop is still running
CycleDone ==
    /\ state = "Running" /\ cycle >= 1
    /\ pc \in {"compute_sleep", "sleeping", "loop_top"}

\* the current cycle is at work
InCycle ==
    /\ state = "Running"
    /\ pc \in {"query", "send_alert", "remediate", "compute_sleep"}

(* ---- C1 ---- *)

\* C1: every evaluated instrument is in the failing list iff its last update
\* is absent or older than the threshold (now - last_update > Threshold).
C1_StaleIffAbsentOrOld ==
    \A k \in 1..Len(results) :
        InFailed(results[k].instrument)
            <=> \/ results[k].last_update.isnat
                \/ results[k].at - results[k].last_update.ts > Threshold

(* ---- C2 ---- *)

\* C2: in a completed cycle exactly one alert is sent and the script is run
\* exactly once when some instrument was classified stale, and neither
\* happens when none was.
C2_AlertAndRemediationIffStale ==
    CycleDone =>
        IF AnyStale
        THEN Len(Alerts) = 1 /\ n_send = 1 /\ n_remed = 1
        ELSE Len(Alerts) = 0 /\ n_send = 0 /\ n_remed = 0

C2_Witness == CycleDone /\ AnyStale /\ Len(Alerts) = 1 /\ n_remed = 1

(* ---- C3 ---- *)

\* C3: the failing list holds exactly the instruments classified stale, once
\* each and in registry order, it is empty iff none was stale, and the count
\* written in the alert is the length of the list.
C3_FailingListInRegistryOrder ==
    /\ \A k \in 1..Len(results) : results[k].instrument = instruments[k]
    /\ failed_instruments = StaleLabels
    /\ (failed_instruments = <<>>) <=> ~AnyStale
    /\ \A j, k \in 1..Len(failed_instruments) :
          j < k => Pos(failed_instruments[j]) < Pos(failed_instruments[k])
    /\ \A m \in 1..Len(Alerts) :
          /\ Alerts[m].count = Len(failed_instruments)
          /\ Alerts[m].labels = failed_instruments

C3_Witness ==
    /\ Len(Alerts) = 1
    /\ Len(results) = NumInstruments
    /\ ~results[1].is_stale
    /\ results[NumInstruments].is_stale

(* ---- C4 ---- *)

\* C4 as stated: a query that raises for an instrument leaves the loop
\* running, with that instrument recorded in the failing list.
C4_QueryFailureContained ==
    fault = "query" => state = "Running" /\ InFailed(instruments[idx])

\* C4 as amended: a query that raises for an instrument aborts the cycle:
\* that instrument and those after it are not evaluated, no alert is sent,
\* the script is not run, the error is logged and the loop ends crashed.
C4_QueryFailureCrashes ==
    fault = "query" =>
        /\ state = "Crashed" /\ pc = "done"
        /\ idx <= NumInstruments /\ Len(results) = idx - 1
        /\ ~InFailed(instruments[idx])
        /\ n_send = 0 /\ n_remed = 0 /\ Len(Alerts) = 0
        /\ err_logged >= 1

C4_Witness ==
    /\ fault = "query" /\ idx = 1 /\ NumInstruments > 1
    /\ state = "Crashed"

(* ---- C5 ---- *)

\* C5 as stated: a channel error of the alert send leaves the loop running.
C5_SendFailureContained ==
    fault = "send_alert" => state = "Running"

\* C5 as amended: a channel error of the alert send is logged and ends the
\* loop crashed: the script is not run for the cycle, the send is not
\* repeated and no later cycle starts.
C5_SendFailureCrashes ==
    fault = "send_alert" =>
        /\ state = "Crashed" /\ pc = "done"
        /\ failed_instruments # <<>>
        /\ n_send = 1 /\ n_remed = 0 /\ last_remed = "none"
        /\ Len(Alerts) = 0
        /\ err_logged >= 1

C5_Witness ==
    fault = "send_alert" /\ state = "Crashed" /\ failed_instruments # <<>>

(* ---- C6 ---- *)

\* C6: a script that exits non-zero is logged only: it is run once in the
\* cycle, one alert was sent, the cycle completes without a crash and the
\* deadline of the next cycle is start_time + Interval.
C6_RemediationFailureLoggedOnly ==
    last_remed = "failed" =>
        /\ state \in {"Running", "Stopped"}
        /\ pc \in {"compute_sleep", "sleeping", "loop_top", "done"}
        /\ state = "Running" <=> pc # "done"
        /\ n_remed = 1 /\ n_send = 1 /\ Len(Alerts) = 1
        /\ err_logged >= 1
        /\ pc # "compute_sleep" => next_run_time = start_time + Interval

C6_Witness ==
    last_remed = "failed" /\ state = "Running" /\ pc = "loop_top"

(* ---- C7 ---- *)

\* C7 as stated: after a cycle whose work took less than Interval the next
\* cycle starts exactly Interval after it started; after a longer one the
\* next cycle starts at once, without sleep.
C7_GapIsExactlyInterval ==
    InCycle /\ cycle >= 2 =>
        IF prev_work < Interval
        THEN start_time = prev_start + Interval
        ELSE sleep_time = 0 /\ start_time = prev_start + prev_work

\* C7 as amended: after a cycle whose work took d < Interval the sleep asked
\* for is Interval - d and the next cycle starts Interval plus the lateness
\* of the wake-up after it started (never Interval + d); after a longer one
\* the next cycle starts at once, without sleep.
C7_GapIsIntervalPlusLateness ==
    InCycle /\ cycle >= 2 =>
        IF prev_work < Interval
        THEN /\ sleep_time = Interval - prev_work
             /\ start_time = prev_start + Interval + prev_late
        ELSE /\ sleep_time = 0 /\ prev_late = 0
             /\ start_time = prev_start + prev_work

C7_Witness ==
    /\ InCycle /\ cycle >= 2
    /\ prev_work > 0 /\ prev_work < Interval /\ prev_late > 0

(* ---- C8 ---- *)

\* C8 as stated: while every cycle's work takes less than Interval, the
\* deadline of the k-th cycle is first_start + k * Interval.
C8_DeadlineWithoutSkew ==
    CycleDone /\ pc # "compute_sleep" /\ all_short =>
        next_run_time = first_start + cycle * Interval

\* C8 as amended: the deadline is counted from the clock read when the cycle
\* starts, so the lateness of every earlier wake-up stays in it: while every
\* cycle's work takes less than Interval, the deadline of the k-th cycle is
\* first_start + k * Interval + the lateness of the sleeps before it.
C8_DeadlineCarriesLateness ==
    CycleDone /\ pc # "compute_sleep" /\ all_short =>
        next_run_time = first_start + cycle * Interval + total_late

C8_Witness ==
    /\ CycleDone /\ pc = "sleeping" /\ all_short
    /\ cycle >= 2 /\ total_late > 0

(* ---- C9 ---- *)

\* C9: a failure of get_me or of the startup message ends the run crashed
\* before the loop: nothing is retried, no cycle starts, no query is made,
\* no alert is sent and the script is not run.
C9_StartupFailureIsFatal ==
    fault \in {"get_me", "send_startup"} =>
        /\ state = "Crashed" /\ pc = "done"
        /\ cycle = 0 /\ results = <<>> /\ failed_instruments = <<>>
        /\ n_send = 0 /\ n_remed = 0 /\ delivered = <<>>
        /\ err_logged = 1

C9_Witness == fault = "send_startup" /\ state = "Crashed"

(* ---- C10 ---- *)

\* C10: when the loop is stopped, the last cycle started has evaluated every
\* instrument and, if some was stale, has sent its alert and run the script.
C10_StoppedOnlyBetweenCycles ==
    state = "Stopped" =>
        /\ Len(results) = NumInstruments
        /\ AnyStale => Len(Alerts) = 1 /\ n_remed = 1


(* ---- C11 ---- *)

\* C11: a fault that main does not contain ends the loop crashed with
\* exactly one more error log entry and no message to the chat, and the
\* crashed loop takes no further step: no cycle, query, alert or script, no
\* restart.
C11_UnexpectedFaultIsTerminal ==
    [][/\ state # "Crashed"
       /\ (state = "Running" /\ fault' # fault) =>
              /\ state' = "Crashed" /\ pc' = "done"
              /\ err_logged' = err_logged + 1
              /\ delivered' = delivered
              /\ cycle' = cycle /\ results' = results]_vars

C11_Witness ==
    state = "Crashed" /\ fault = "remediate" /\ cycle >= 1 /\ n_remed = 1


(* ---- C12 ---- *)

\* C12: the failing list of a cycle is made of that cycle's evaluations
\* alone; every completed cycle names each instrument it classified stale in
\* its alert and runs the script, so an instrument named in the alert of the
\* cycle before that is stale again is named again, the script being run in
\* both cycles.
C12_NoDeduplicationAcrossCycles ==
    /\ failed_instruments = StaleLabels
    /\ CycleDone =>
          \A k \in 1..Len(results) :
              results[k].is_stale
                  => /\ results[k].instrument \in Named(delivered)
                     /\ n_remed = 1
                     /\ (cycle >= 2 /\ results[k].instrument = prev_first)
                            => prev_remed = 1

C12_Witness ==
    /\ CycleDone /\ cycle >= 2
    /\ prev_first # 0 /\ prev_first \in Named(delivered)
    /\ n_remed = 1 /\ prev_remed = 1


(* ---- C13 ---- *)

\* C13: no external call stalls the loop: whenever a cycle is at work, also
\* with a call that does not return, the cycle can take its next step (a
\* call that exceeds its time bound counting as failed).
C13_NoCallStallsTheLoop ==
    (state = "Running"
        /\ pc \in {"query", "send_alert", "remediate", "remediate_hung",
                   "compute_sleep"})
        => ENABLED CycleStep


(* ---- C14 ---- *)

\* C14: a cycle starts (the counter, start_time and the emptied evaluations
\* change) only from the top of the loop, one cycle at a time, and after the
\* first only when the cycle before has evaluated every instrument and, if
\* its list was not empty, has sent its alert and has run the script.
C14_CyclesAreSequential ==
    [][/\ (cycle' # cycle \/ start_time' # start_time
              \/ Len(results') < Len(results))
          => /\ cycle' = cycle + 1
             /\ state = "Running" /\ pc = "loop_top" /\ pc' = "query"
             /\ cycle >= 1 =>
                   /\ Len(results) = NumInstruments
                   /\ IF failed_instruments # <<>>
                      THEN /\ n_send = 1 /\ Len(Alerts) = 1
                           /\ n_remed = 1 /\ last_remed \in {"ok", "failed"}
                      ELSE n_send = 0 /\ n_remed = 0
       /\ pc' = "query" => pc \in {"loop_top", "query"}]_vars

C14_Witness ==
    /\ state = "Running" /\ cycle >= 2 /\ pc = "query"
    /\ prev_remed = 1 /\ prev_first # 0


(* ---- C15 ---- *)

\* the escape character removed in front of each reserved character
RECURSIVE Unescape(_)
Unescape(t) ==
    IF t = <<>> THEN <<>>
    ELSE IF Head(t) = "\\" /\ Len(t) >= 2 /\ t[2] \in SPECIAL_CHARS
         THEN <<t[2]>> \o Unescape(SubSeq(t, 3, Len(t)))
         ELSE <<Head(t)>> \o Unescape(Tail(t))

\* number of reserved characters among the first n of t
Reserved(t, n) == Cardinality({i \in 1..n : t[i] \in SPECIAL_CHARS})

\* the formatted label without its two emphasis marks
Inner(t) == SubSeq(t, 2, Len(t) - 1)

\* C15: in the formatted label every character of the raw label is kept in
\* its order, each reserved one behind exactly one escape character and
\* nothing else added, so that removing the escape characters gives the raw
\* label back: the label is escaped once, inside one pair of emphasis marks.
C15_EscapedOncePerReservedCharacter ==
    esc_pc = "formatted" =>
        LET esc == Inner(alert_part)
        IN  /\ Len(alert_part) >= 2
            /\ Head(alert_part) = "*" /\ alert_part[Len(alert_part)] = "*"
            /\ Len(esc) = Len(raw_label) + Reserved(raw_label, Len(raw_label))
            /\ \A i \in 1..Len(raw_label) :
                  LET p == i + Reserved(raw_label, i)
                  IN  /\ esc[p] = raw_label[i]
                      /\ raw_label[i] \in SPECIAL_CHARS => esc[p - 1] = "\\"
            /\ Unescape(esc) = raw_label

C15_Witness ==
    /\ esc_pc = "formatted"
    /\ Len(raw_label) = MaxLen
    /\ \E i, j, k \in 1..Len(raw_label) :
          raw_label[i] = "A" /\ raw_label[j] = "\\" /\ raw_label[k] = "("
    /\ Len(alert_part) = Len(raw_label) + 4


(* ---- C16 ---- *)

\* the entries as written, one per line of the three literals
Written ==
    [i \in 1..Len(config.binance) |->
         binance_item(config.binance[i].k, config.binance[i].v)]
    \o [i \in 1..Len(config.bitmex) |-> bitmex_item(config.bitmex[i])]
    \o [i \in 1..Len(config.crypto) |->
         crypto_item(config.crypto[i].k, config.crypto[i].v)]

LabelTwice(items) ==
    \E i, j \in 1..Len(items) : i < j /\ items[i].k = items[j].k

\* C16 as stated: a registry written with a label twice is not built, its
\* construction ends in a ConfigError.
C16_DuplicateLabelIsConfigError ==
    (reg_pc # "written" /\ reg_pc # "idle" /\ LabelTwice(Written))
        => reg_pc = "ConfigError"

\* C16 as the code has it: construction always ends with a registry; its
\* labels are distinct and each of its entries is one of those written, so
\* of the entries written under one label a single one is kept, silently;
\* a source_key is never empty and nothing checks it.
C16_DuplicateLabelKeepsOneEntry ==
    reg_pc \in {"written", "built"}
    /\ (reg_pc = "built" =>
          /\ ~LabelTwice(registry)
          /\ \A i \in 1..Len(registry) :
                /\ \E j \in 1..Len(Written) : Written[j] = registry[i]
                /\ registry[i].v # <<>>
          /\ LabelTwice(Written) => Len(registry) < Len(Written)
          /\ (/\ ~LabelTwice(Written)
              /\ ~LabelTwice(config.binance)
              /\ ~LabelTwice(config.crypto)) => registry = Written)

C16_Witness ==
    /\ reg_pc = "built"
    /\ \E i, j \in 1..Len(Written) :
          /\ i < j
          /\ Written[i].k = Written[j].k
          /\ Written[i].v # Written[j].v
          /\ \E r \in 1..Len(registry) : registry[r] = Written[j]
          /\ \A r \in 1..Len(registry) : registry[r] # Written[i]


(* ---- C17 ---- *)

\* one query per instrument of the registry, in its order
WholeRegistryQueried ==
    /\ Len(results) = NumInstruments
    /\ \A k \in 1..NumInstruments : results[k].instrument = instruments[k]

\* C17: when the alert is about to be sent, and ever after in that cycle,
\* each instrument of the registry has been queried once, in registry
\* order; a cycle calls send_message at most once and at most one alert
\* message of it is delivered.
C17_AlertAfterWholeRegistry ==
    /\ (state = "Running" /\ pc = "send_alert") => WholeRegistryQueried
    /\ (cycle >= 1 /\ n_send >= 1) => (WholeRegistryQueried /\ n_send = 1)
    /\ cycle >= 1 => Len(Alerts) <= n_send

C17_Witness ==
    /\ state = "Running" /\ pc = "remediate"
    /\ n_send = 1 /\ Len(Alerts) = 1
    /\ Len(results) = NumInstruments
    /\ ~results[1].is_stale /\ results[NumInstruments].is_stale

(* ---- C18 ---- *)

\* C18: the restart script is started only in a cycle whose alert send has
\* been attempted, which in turn is a cycle whose instruments have all been
\* evaluated.
C18_SendPrecedesRemediation ==
    (cycle >= 1 /\ (n_remed >= 1 \/ pc \in {"remediate", "remediate_hung"}))
        => (n_send = 1 /\ Len(results) = NumInstruments)

C18_Witness ==
    /\ state = "Running" /\ n_remed = 1 /\ n_send = 1
    /\ last_remed \in {"ok", "failed"}
    /\ Len(results) = NumInstruments

(* ---- C20 ---- *)

\* C20: while Running the computed sleep time lies between 0 and the
\* interval; once a cycle has computed it, it is the interval less the time
\* the work of that cycle took where that is positive, and 0 otherwise.
C20_SleepWithinInterval ==
    state = "Running" =>
        /\ 0 <= sleep_time /\ sleep_time <= Interval
        /\ next_run_time # 0 =>
              sleep_time = (IF Interval - prev_work > 0
                            THEN Interval - prev_work ELSE 0)

C20_Witness ==
    /\ state = "Running" /\ pc = "loop_top" /\ cycle >= 1
    /\ next_run_time # 0
    /\ prev_work > Interval /\ sleep_time = 0


(* ---- C19 ---- *)

\* C19: a cancellation requested while the loop is Running leads to Stopped,
\* as long as no external call raises or fails to return.
C19_CancellationEventuallyStops ==
    (state = "Running" /\ must_cancel)
        ~> (state = "Stopped" \/ state = "Crashed" \/ pc = "remediate_hung")

====
